---- MODULE Spec2Model ----
(***************************************************************************)
(* Model of the retrieval core of rag-mmm-platform:                        *)
(*   src/rag/embeddings/indexer.py   (RAGIndexer: the index builds)        *)
(*   src/rag/retrieval/query_engine.py (search_text: hybrid query)         *)
(* The state is the durable storage the two modules share: the Qdrant      *)
(* collections and the BM25 artifact directory, plus a record of what the  *)
(* last call did and returned.  Every build and query call is synchronous, *)
(* so each call is one action.                                             *)
(*   src/rag/data_processing/build_index.py, ingest.py (the build command  *)
(*   line and the CSV loader) are calls of the same kind.                  *)
(*   src/platform/api/agents/rag_router.py (ask_with_routing) is a         *)
(* coroutine: it has one action per stretch of code between two awaits,    *)
(* and several of them can be in flight over the shared session store.     *)
(***************************************************************************)
EXTENDS Integers, Sequences, FiniteSets, TLC

VARIABLES
    qdrant,     \* collection name -> [exists, points]: the Qdrant storage
    bm25,       \* the BM25 persist directory: [files, corpus]
    last,       \* what the last call was given, did and returned
    sessions,   \* rag_router._sessions: session id -> client (NoClient: no entry)
    routing,    \* the ask_with_routing coroutines, each where it is suspended
    cli         \* the build_index.py run in progress, and the runs completed

vars == <<qdrant, bm25, last, sessions, routing, cli>>

(***************************************************************************)
(* Bounds of the model.                                                    *)
(***************************************************************************)
MaxDocs == 3        \* text chunks a loader can produce
MaxAssets == 2      \* asset chunks a loader can produce
MaxTopK == 3        \* largest top_k a caller asks for
MaxRows == 41       \* data rows of the largest CSV file
MaxEstimateDocs == 2   \* chunks handed to one estimate
MaxBuildTopK == 1   \* top_k of a search made beside a build
MaxCalls == 2       \* ask_with_routing calls a run of the API serves

(***************************************************************************)
(* Strings are sequences of characters, so that strip() and lower() are    *)
(* computed and not assumed.                                               *)
(***************************************************************************)
Str(c) == <<c>>
EmptyStr == <<>>

IsSpace(c) == c = " "

Lower(c) == IF c = "A" THEN "a" ELSE IF c = "B" THEN "b" ELSE c

LowerStr(s) == [i \in 1..Len(s) |-> Lower(s[i])]

RECURSIVE LStrip(_)
LStrip(s) == IF s # <<>> /\ IsSpace(Head(s)) THEN LStrip(Tail(s)) ELSE s

RECURSIVE RStrip(_)
RStrip(s) ==
    IF s # <<>> /\ IsSpace(s[Len(s)]) THEN RStrip(SubSeq(s, 1, Len(s) - 1)) ELSE s

Strip(s) == RStrip(LStrip(s))

(* An optional string argument: None or a string. *)
None == [isNone |-> TRUE, str |-> EmptyStr]
Some(s) == [isNone |-> FALSE, str |-> s]

(* Python truthiness of an optional string: None and "" are falsy. *)
Truthy(opt) == ~opt.isNone /\ opt.str # EmptyStr

Min(a, b) == IF a <= b THEN a ELSE b

(***************************************************************************)
(* Collection names and the chunk universe.                                *)
(***************************************************************************)
TEXT_COLLECTION == "text_documents"
ASSET_COLLECTION == "campaign_assets"
Collections == {TEXT_COLLECTION, ASSET_COLLECTION}

(* Categories as ingest._categorize assigns them: lower-case identifiers. *)
ChunkCategory(i) == IF i % 2 = 1 THEN Str("a") ELSE Str("b")

TextChunk(i) == [text |-> i, metadata |-> [category |-> ChunkCategory(i)]]

(* Asset chunks: even ones come with an image_path, odd ones without. *)
AssetChunk(i) ==
    IF i % 2 = 0
    THEN [text |-> i,
          metadata |-> [category |-> Str("s"), channel |-> Str("m"),
                        image_path |-> Str("p")]]
    ELSE [text |-> i,
          metadata |-> [category |-> Str("s"), channel |-> Str("m")]]

(* A chunk list is what a loader returns: the chunks of the sources found, *)
(* distinct Documents in the loader's fixed order.                         *)
TextDocLists == {[i \in 1..n |-> TextChunk(i)] : n \in 0..MaxDocs}

AssetDocLists == {[i \in 1..n |-> AssetChunk(i)] : n \in 0..MaxAssets}

MetaGet(metadata, key, default) ==
    IF key \in DOMAIN metadata THEN metadata[key] ELSE default

Range(s) == {s[i] : i \in 1..Len(s)}

(***************************************************************************)
(* Storage.                                                                *)
(***************************************************************************)
Absent == [exists |-> FALSE, points |-> <<>>]

EmptyDir == [files |-> {}, corpus |-> <<>>]

(* The files BM25Retriever.persist leaves in the directory. *)
PersistedFiles == {"retriever.json"}

(* A CSV file as csv.reader sees it: missing, or a list of rows.  A row is *)
(* a number: 0 the header, j the j-th data row.                            *)
NoFile == [exists |-> FALSE, rows |-> <<>>]

(* The text sources under data/: the three CSV files the sample mode       *)
(* names, one contract, and generators/config.py.                          *)
NoTree == [csv |-> <<NoFile, NoFile, NoFile>>, contract |-> FALSE, config |-> FALSE]

(* An environment variable: unset, or set to a value that may be empty. *)
Unset == [set |-> FALSE, value |-> ""]

SetTo(value) == [set |-> TRUE, value |-> value]

NoEnv == [EMBEDDING_MODEL |-> Unset, EMBED_MODEL |-> Unset]

NoModels == [indexer |-> "", query |-> ""]

(* --max-cost-usd: absent, or an amount in units of 1e-8 USD. *)
NoCap == [isNone |-> TRUE, usd |-> 0]

Cap(c) == [isNone |-> FALSE, usd |-> c]

(* The parsed command line of build_index.py when no flag is given. *)
NoArgs ==
    [check |-> FALSE, dry_run |-> FALSE, text |-> FALSE, assets |-> FALSE,
     sample |-> FALSE, max_cost_usd |-> NoCap]

NoEstimate ==
    [doc_count |-> 0, chunk_count |-> 0, estimated_tokens |-> 0,
     estimated_cost_usd |-> 0]

NoIndexerEstimate ==
    [chunk_count |-> 0, estimated_tokens |-> 0, estimated_cost_usd |-> 0]

NoReport ==
    [text |-> [vector_count |-> 0, status |-> "none"],
     assets |-> [vector_count |-> 0, status |-> "none"],
     bm25 |-> [status |-> "none", file_count |-> 0]]

(* The record of a call: which call, its arguments, how it ended, what it  *)
(* touched on the way and what it returned.                                *)
NoOutcome ==
    [op |-> "none", query |-> EmptyStr, top_k |-> 0, category |-> None, channel |-> None,
     docs |-> <<>>, result |-> "none", missing |-> "none", dropped |-> 0,
     build_hint |-> FALSE, steps |-> <<>>, rebuilt |-> FALSE,
     dense |-> <<>>, lex |-> <<>>, bm25_k |-> 0, calls |-> <<>>,
     fused |-> <<>>, returned |-> <<>>,
     args |-> NoArgs, exit_code |-> 0, estimate |-> NoEstimate,
     report |-> NoReport, printed |-> <<>>, file |-> NoFile,
     tree |-> NoTree, indexer_estimate |-> NoIndexerEstimate,
     env |-> NoEnv, models |-> NoModels]

(***************************************************************************)
(* RAGIndexer (indexer.py).                                                *)
(***************************************************************************)

(* A reset that drops nothing. *)
ResetCollectionSkipped(db, name) == db

(* _reset_collection: drop the collection when it exists. *)
ResetCollection(db, name) ==
    IF db[name].exists THEN [db EXCEPT ![name] = Absent] ELSE db

(* VectorStoreIndex.from_documents over a QdrantVectorStore with           *)
(* transformations=[]: the collection is created when missing and one      *)
(* point is stored per Document, under the Document's own fresh id.        *)
StoreDocuments(db, name, docs) ==
    [db EXCEPT ![name] = [exists |-> TRUE, points |-> db[name].points \o docs]]

(* An artifact probe that looks in the wrong place and finds nothing. *)
HasBm25ArtifactsNever(dir) == FALSE

(* _has_bm25_artifacts: the directory exists and has at least one entry. *)
HasBm25Artifacts(dir) == dir.files # {}

(* BM25Retriever.from_persist_dir: the retriever the directory holds. *)
LoadBm25(dir) == [corpus |-> dir.corpus, num_docs |-> Len(dir.corpus)]

(* A build that drops the collection before it looks at its input. *)
BuildTextIndexResetFirst(docs) ==
    IF docs = <<>>
    THEN /\ qdrant' = ResetCollection(qdrant, TEXT_COLLECTION)
         /\ last' = [NoOutcome EXCEPT !.op = "build_text_index", !.docs = docs,
                                      !.result = "ValueError"]
         /\ UNCHANGED bm25
    ELSE /\ qdrant' = StoreDocuments(ResetCollection(qdrant, TEXT_COLLECTION),
                                     TEXT_COLLECTION, docs)
         /\ last' = [NoOutcome EXCEPT !.op = "build_text_index", !.docs = docs,
                                      !.result = "ok",
                                      !.dropped = Len(qdrant[TEXT_COLLECTION].points),
                                      !.steps = <<"reset", "store">>]
         /\ UNCHANGED bm25

(* build_text_index *)
BuildTextIndex(docs) ==
    IF docs = <<>>
    THEN /\ last' = [NoOutcome EXCEPT !.op = "build_text_index", !.docs = docs,
                                      !.result = "ValueError"]
         /\ UNCHANGED <<qdrant, bm25>>
    ELSE /\ qdrant' = StoreDocuments(ResetCollection(qdrant, TEXT_COLLECTION),
                                     TEXT_COLLECTION, docs)
         /\ last' = [NoOutcome EXCEPT !.op = "build_text_index", !.docs = docs,
                                      !.result = "ok",
                                      !.dropped = Len(qdrant[TEXT_COLLECTION].points),
                                      !.steps = <<"reset", "store">>]
         /\ UNCHANGED bm25

(* An assignment in place of setdefault: every doc's image_path is reset. *)
WithImagePathOverwritten(doc) ==
    [doc EXCEPT !.metadata = [image_path |-> EmptyStr] @@ @]

(* build_asset_index, lines 124-127: every doc gets the image_path key. *)
WithImagePath(doc) ==
    IF "image_path" \in DOMAIN doc.metadata
    THEN doc
    ELSE [doc EXCEPT !.metadata = @ @@ [image_path |-> EmptyStr]]

(* build_asset_index *)
BuildAssetIndex(docs) ==
    IF docs = <<>>
    THEN /\ last' = [NoOutcome EXCEPT !.op = "build_asset_index", !.docs = docs,
                                      !.result = "ValueError"]
         /\ UNCHANGED <<qdrant, bm25>>
    ELSE LET stamped == [i \in 1..Len(docs) |-> WithImagePath(docs[i])]
         IN /\ qdrant' = StoreDocuments(ResetCollection(qdrant, ASSET_COLLECTION),
                                        ASSET_COLLECTION, stamped)
            /\ last' = [NoOutcome EXCEPT !.op = "build_asset_index",
                                         !.docs = stamped, !.result = "ok",
                                         !.dropped = Len(qdrant[ASSET_COLLECTION].points),
                                         !.steps = <<"stamp", "reset", "store">>]
            /\ UNCHANGED bm25

(* build_bm25_index: load when artifacts exist, else build and persist. *)
BuildBm25Index(docs) ==
    IF HasBm25Artifacts(bm25)
    THEN /\ last' = [NoOutcome EXCEPT !.op = "build_bm25_index", !.docs = docs,
                                      !.result = "loaded",
                                      !.steps = <<"load">>,
                                      !.returned = LoadBm25(bm25).corpus]
         /\ UNCHANGED <<qdrant, bm25>>
    ELSE IF docs = <<>>
    THEN /\ last' = [NoOutcome EXCEPT !.op = "build_bm25_index", !.docs = docs,
                                      !.result = "ValueError"]
         /\ UNCHANGED <<qdrant, bm25>>
    ELSE /\ bm25' = [files |-> PersistedFiles, corpus |-> docs]
         /\ last' = [NoOutcome EXCEPT !.op = "build_bm25_index", !.docs = docs,
                                      !.result = "built", !.rebuilt = TRUE,
                                      !.steps = <<"from_defaults", "persist">>,
                                      !.returned = docs]
         /\ UNCHANGED qdrant


(***************************************************************************)
(* Query engine (query_engine.py).                                         *)
(***************************************************************************)

(* _build_category_filters: None, or an exact-match filter on the trimmed  *)
(* category.                                                               *)
NoFilter == [active |-> FALSE, key |-> "category", value |-> EmptyStr]

BuildCategoryFilters(category) ==
    IF ~Truthy(category) THEN NoFilter
    ELSE LET normalized == Strip(category.str)
         IN IF normalized = EmptyStr THEN NoFilter
            ELSE [active |-> TRUE, key |-> "category", value |-> normalized]

(* A post-filter that lets every node through. *)
MatchesCategoryAlways(node, category) == TRUE

(* _matches_category: the post-filter over the fused list. *)
MatchesCategory(node, category) ==
    IF ~Truthy(category) THEN TRUE
    ELSE LET expected == LowerStr(Strip(category.str))
             actual == LowerStr(MetaGet(node.metadata, "category", EmptyStr))
         IN actual = expected

(* No clamp: the requested top_k goes to the ranker as it is. *)
Bm25TopKUnclamped(raw_num_docs, requested_top_k) == requested_top_k

(* _bm25_top_k: raw_num_docs is the count the persisted retriever records  *)
(* (None when it records none).                                            *)
Bm25TopK(raw_num_docs, requested_top_k) ==
    LET num_docs == IF raw_num_docs.isNone THEN requested_top_k
                    ELSE raw_num_docs.val
    IN IF num_docs <= 0 THEN 1 ELSE Min(requested_top_k, num_docs)

NumDocs(n) == [isNone |-> FALSE, val |-> n]

(* A Validate step that forgets top_k. *)
ValidationErrorQueryOnly(query, top_k) ==
    IF Strip(query) = EmptyStr THEN "query" ELSE "none"

(* lines 107-111: the Validate step; "none" when the arguments pass. *)
ValidationError(query, top_k) ==
    IF Strip(query) = EmptyStr THEN "query"
    ELSE IF top_k <= 0 THEN "top_k"
    ELSE "none"

(* line 116: the lexical artifacts are absent. *)
Bm25Missing(dir) == dir.files = {}

(* The collection check left out. *)
CollectionMissingUnchecked(db) == FALSE

(* line 130: the text collection is absent. *)
CollectionMissing(db) == ~db[TEXT_COLLECTION].exists

(* The rankings a retriever can return: k distinct items in some order.    *)
(* Which items and in which order is the embedding model's and the         *)
(* ranker's business, so every ranking is possible.                        *)
Injective(s) == \A i, j \in 1..Len(s) : i # j => s[i] # s[j]

Rankings(S, k) == {s \in [1..k -> S] : Injective(s)}

(* ExactMatchFilter, applied by the vector store to the stored payload. *)
PassesFilter(node, filters) ==
    ~filters.active \/
    (filters.key \in DOMAIN node.metadata /\ node.metadata[filters.key] = filters.value)

(* VectorIndexRetriever: the similarity_top_k nearest stored points that   *)
(* pass the filter.                                                        *)
DenseRetrieve(points, filters, similarity_top_k) ==
    LET candidates == {n \in Range(points) : PassesFilter(n, filters)}
    IN Rankings(candidates, Min(similarity_top_k, Cardinality(candidates)))

(* BM25Retriever.retrieve: the similarity_top_k best corpus nodes; the     *)
(* ranker refuses a k larger than the corpus.                              *)
Bm25Refuses(retriever, k) == k > retriever.num_docs

Bm25Retrieve(retriever, k) == Rankings(Range(retriever.corpus), k)

(* The fusion retriever left on its defaults: four queries, asynchronous. *)
FusionConfigDefaults(top_k) ==
    [retrievers |-> <<"vector", "bm25">>, similarity_top_k |-> top_k,
     num_queries |-> 4, use_async |-> TRUE]

(* lines 153-160: how the QueryFusionRetriever is set up                   *)
(* (mode=RECIPROCAL_RANK selects ReciprocalRerankFusion below).            *)
FusionConfig(top_k) ==
    [retrievers |-> <<"vector", "bm25">>, similarity_top_k |-> top_k,
     num_queries |-> 1, use_async |-> FALSE]

(* Reciprocal rank fusion as the fusion retriever computes it: rank counts *)
(* from 0 and k = 60.  Scores are kept exact as multiples of 1/RRFScale.   *)
RRF_K == 60

RECURSIVE Product(_, _)
Product(lo, hi) == IF lo > hi THEN 1 ELSE lo * Product(lo + 1, hi)

RRFScale == Product(RRF_K, RRF_K + MaxTopK - 1)

Contribution(rank) == RRFScale \div (rank + RRF_K)

Position(list, node) == CHOOSE i \in 1..Len(list) : list[i] = node

RECURSIVE Dedupe(_)
Dedupe(s) ==
    IF s = <<>> THEN <<>>
    ELSE LET front == Dedupe(SubSeq(s, 1, Len(s) - 1))
             x == s[Len(s)]
         IN IF x \in Range(front) THEN front ELSE Append(front, x)

RECURSIVE Concat(_)
Concat(lists) == IF lists = <<>> THEN <<>> ELSE Head(lists) \o Concat(Tail(lists))

RECURSIVE FusedScore(_, _)
FusedScore(lists, node) ==
    IF lists = <<>> THEN 0
    ELSE (IF node \in Range(Head(lists))
          THEN Contribution(Position(Head(lists), node) - 1) ELSE 0)
         + FusedScore(Tail(lists), node)

(* sorted(..., reverse=True): descending and stable. *)
RECURSIVE SortByScoreDesc(_)
SortByScoreDesc(s) ==
    IF s = <<>> THEN <<>>
    ELSE LET i == CHOOSE i \in 1..Len(s) :
                    /\ \A j \in 1..Len(s) : s[j].score <= s[i].score
                    /\ \A j \in 1..(i - 1) : s[j].score < s[i].score
         IN <<s[i]>> \o SortByScoreDesc(SubSeq(s, 1, i - 1) \o SubSeq(s, i + 1, Len(s)))

ReciprocalRerankFusion(lists) ==
    LET keys == Dedupe(Concat(lists))
    IN SortByScoreDesc([i \in 1..Len(keys) |->
                          [node |-> keys[i], score |-> FusedScore(lists, keys[i])]])

Take(s, n) == SubSeq(s, 1, Min(n, Len(s)))

(* The retriever calls one fusion makes: every retriever once per query. *)
FusionCalls(cfg) ==
    [c \in 1..(cfg.num_queries * Len(cfg.retrievers)) |->
        cfg.retrievers[((c - 1) % Len(cfg.retrievers)) + 1]]

(* QueryFusionRetriever.retrieve: results[r] is what retriever r returned. *)
FusionRetrieve(cfg, results) ==
    LET calls == FusionCalls(cfg)
        lists == [c \in 1..Len(calls) |-> results[calls[c]]]
    IN Take(ReciprocalRerankFusion(lists), cfg.similarity_top_k)

(* A post-filter that collects the matching nodes back to front. *)
RECURSIVE PostFilterReversed(_, _)
PostFilterReversed(nodes, category) ==
    IF nodes = <<>> THEN <<>>
    ELSE IF MatchesCategory(Head(nodes).node, category)
         THEN PostFilterReversed(Tail(nodes), category) \o <<Head(nodes)>>
         ELSE PostFilterReversed(Tail(nodes), category)

(* line 163: the post-filter keeps the matching nodes, in order. *)
RECURSIVE PostFilter(_, _)
PostFilter(nodes, category) ==
    IF nodes = <<>> THEN <<>>
    ELSE IF MatchesCategory(Head(nodes).node, category)
         THEN <<Head(nodes)>> \o PostFilter(Tail(nodes), category)
         ELSE PostFilter(Tail(nodes), category)

(* Both caps off by one. *)
ReturnedNodesOffByOne(top_k, category, results) ==
    Take(PostFilter(FusionRetrieve(FusionConfig(top_k + 1), results), category),
         top_k + 1)

(* lines 162-164: fuse, post-filter, cap to top_k. *)
ReturnedNodes(top_k, category, results) ==
    Take(PostFilter(FusionRetrieve(FusionConfig(top_k), results), category), top_k)


(* _serialize_node *)
SerializeNode(n) == [score |-> n.score, text |-> n.node.text, metadata |-> n.node.metadata]

(* search_text: one call, from validation to the closing of the client. *)
SearchText(query, top_k, category) ==
    LET call == [NoOutcome EXCEPT !.op = "search_text", !.query = query,
                                  !.top_k = top_k, !.category = category]
        filters == BuildCategoryFilters(category)
        retriever == LoadBm25(bm25)
        k == Bm25TopK(NumDocs(retriever.num_docs), top_k)
        cfg == FusionConfig(top_k)
    IN
    /\ UNCHANGED <<qdrant, bm25>>
    /\ IF ValidationError(query, top_k) # "none"
       THEN last' = [call EXCEPT !.result = "ValueError",
                                 !.missing = ValidationError(query, top_k),
                                 !.steps = <<"validate">>]
       ELSE IF Bm25Missing(bm25)
       THEN last' = [call EXCEPT !.result = "FileNotFoundError",
                                 !.missing = "bm25", !.build_hint = TRUE,
                                 !.steps = <<"validate", "check_bm25">>]
       ELSE IF CollectionMissing(qdrant)
       THEN last' = [call EXCEPT !.result = "FileNotFoundError",
                                 !.missing = TEXT_COLLECTION, !.build_hint = TRUE,
                                 !.steps = <<"validate", "check_bm25", "open_client",
                                             "collection_exists", "close_client">>]
       ELSE IF Bm25Refuses(retriever, k)
       THEN \E dense \in DenseRetrieve(qdrant[TEXT_COLLECTION].points, filters, top_k) :
              last' = [call EXCEPT !.result = "RankerError", !.bm25_k = k,
                                   !.dense = dense, !.calls = FusionCalls(cfg),
                                   !.steps = <<"validate", "check_bm25", "open_client",
                                               "collection_exists", "load_bm25",
                                               "retrieve", "close_client">>]
       ELSE \E dense \in DenseRetrieve(qdrant[TEXT_COLLECTION].points, filters, top_k),
               lex \in Bm25Retrieve(retriever, k) :
              LET results == [vector |-> dense, bm25 |-> lex]
                  nodes == ReturnedNodes(top_k, category, results)
              IN last' = [call EXCEPT
                            !.result = "ok", !.bm25_k = k,
                            !.dense = dense, !.lex = lex,
                            !.calls = FusionCalls(cfg),
                            !.fused = FusionRetrieve(cfg, results),
                            !.returned = [i \in 1..Len(nodes) |-> SerializeNode(nodes[i])],
                            !.steps = <<"validate", "check_bm25", "open_client",
                                        "collection_exists", "load_bm25",
                                        "retrieve", "close_client">>]

(***************************************************************************)
(* search_assets: used by tools.py and by the tests of the query engine,   *)
(* absent from query_engine.py; modelled from the specification (the       *)
(* contract of search_text over the asset collection, with the pre-filter  *)
(* and the post-filter on channel) and from the tests, which query an      *)
(* asset collection without any lexical index.                             *)
(***************************************************************************)
BuildChannelFilters(channel) ==
    IF ~Truthy(channel) THEN [NoFilter EXCEPT !.key = "channel"]
    ELSE LET normalized == Strip(channel.str)
         IN IF normalized = EmptyStr THEN [NoFilter EXCEPT !.key = "channel"]
            ELSE [active |-> TRUE, key |-> "channel", value |-> normalized]

MatchesChannel(node, channel) ==
    IF ~Truthy(channel) THEN TRUE
    ELSE LET expected == LowerStr(Strip(channel.str))
             actual == LowerStr(MetaGet(node.metadata, "channel", EmptyStr))
         IN actual = expected

RECURSIVE PostFilterChannel(_, _)
PostFilterChannel(nodes, channel) ==
    IF nodes = <<>> THEN <<>>
    ELSE IF MatchesChannel(Head(nodes).node, channel)
         THEN <<Head(nodes)>> \o PostFilterChannel(Tail(nodes), channel)
         ELSE PostFilterChannel(Tail(nodes), channel)

(* A probe of the text collection where the asset collection is meant. *)
AssetCollectionMissingProbesText(db) == ~db[TEXT_COLLECTION].exists

AssetCollectionMissing(db) == ~db[ASSET_COLLECTION].exists

AssetFusionConfig(top_k) ==
    [retrievers |-> <<"vector">>, similarity_top_k |-> top_k,
     num_queries |-> 1, use_async |-> FALSE]

AssetReturnedNodes(top_k, channel, results) ==
    Take(PostFilterChannel(FusionRetrieve(AssetFusionConfig(top_k), results), channel),
         top_k)

SearchAssets(query, top_k, channel) ==
    LET call == [NoOutcome EXCEPT !.op = "search_assets", !.query = query,
                                  !.top_k = top_k, !.channel = channel]
        filters == BuildChannelFilters(channel)
    IN
    /\ UNCHANGED <<qdrant, bm25>>
    /\ IF ValidationError(query, top_k) # "none"
       THEN last' = [call EXCEPT !.result = "ValueError",
                                 !.missing = ValidationError(query, top_k),
                                 !.steps = <<"validate">>]
       ELSE IF AssetCollectionMissing(qdrant)
       THEN last' = [call EXCEPT !.result = "FileNotFoundError",
                                 !.missing = ASSET_COLLECTION,
                                 !.steps = <<"validate", "open_client",
                                             "collection_exists", "close_client">>]
       ELSE \E dense \in DenseRetrieve(qdrant[ASSET_COLLECTION].points, filters, top_k) :
              LET results == [vector |-> dense]
                  nodes == AssetReturnedNodes(top_k, channel, results)
              IN last' = [call EXCEPT
                            !.result = "ok", !.dense = dense,
                            !.returned = [i \in 1..Len(nodes) |-> SerializeNode(nodes[i])],
                            !.steps = <<"validate", "open_client", "collection_exists",
                                        "retrieve", "close_client">>]

(***************************************************************************)
(* CSV ingestion (ingest.py).                                              *)
(***************************************************************************)
CSV_CHUNK_SIZE == 20

(* range(start, stop, step) *)
RECURSIVE PyRange(_, _, _)
PyRange(start, stop, step) ==
    IF start >= stop THEN <<>> ELSE <<start>> \o PyRange(start + step, stop, step)

(* A chunk whose row_range starts at the 0-based offset. *)
CsvChunkAtZeroBased(header, data_rows, chunk_start) ==
    LET total_rows == Len(data_rows)
        chunk_end == Min(chunk_start + CSV_CHUNK_SIZE, total_rows)
    IN [text |-> <<header>> \o SubSeq(data_rows, chunk_start + 1, chunk_end),
        metadata |-> [file_type |-> "csv", columns |-> header,
                      row_range |-> [row_start |-> chunk_start, row_end |-> chunk_end],
                      total_rows |-> total_rows]]

(* load_csv_documents, the body of the loop: the chunk that starts after   *)
(* chunk_start data rows, the header written above its rows.               *)
CsvChunkAt(header, data_rows, chunk_start) ==
    LET total_rows == Len(data_rows)
        chunk_end == Min(chunk_start + CSV_CHUNK_SIZE, total_rows)
    IN [text |-> <<header>> \o SubSeq(data_rows, chunk_start + 1, chunk_end),
        metadata |-> [file_type |-> "csv", columns |-> header,
                      row_range |-> [row_start |-> chunk_start + 1, row_end |-> chunk_end],
                      total_rows |-> total_rows]]

(* load_csv_documents *)
LoadCsvDocuments(csv_file) ==
    IF ~csv_file.exists THEN <<>>
    ELSE IF Len(csv_file.rows) < 2 THEN <<>>
    ELSE LET header == csv_file.rows[1]
             data_rows == Tail(csv_file.rows)
             starts == PyRange(0, Len(data_rows), CSV_CHUNK_SIZE)
         IN [k \in 1..Len(starts) |-> CsvChunkAt(header, data_rows, starts[k])]

LoadCsv(csv_file) ==
    /\ last' = [NoOutcome EXCEPT !.op = "load_csv_documents", !.file = csv_file,
                                 !.result = "ok",
                                 !.returned = LoadCsvDocuments(csv_file)]
    /\ UNCHANGED <<qdrant, bm25>>

(***************************************************************************)
(* The text loaders (ingest.py, build_index.py).                           *)
(***************************************************************************)
ContractDoc == [text |-> <<0>>, metadata |-> [file_type |-> "contract"]]

ConfigDoc == [text |-> <<0>>, metadata |-> [file_type |-> "config"]]

(* load_contract_documents: a missing file is logged and gives nothing. *)
LoadContractDocuments(present) == IF present THEN <<ContractDoc>> ELSE <<>>

(* load_config_document: a missing config.py raises FileNotFoundError. *)
LoadConfigDocument(present) ==
    IF present THEN [raised |-> FALSE, docs |-> <<ConfigDoc>>]
    ELSE [raised |-> TRUE, docs |-> <<>>]

CsvDocuments(tree) ==
    Concat([i \in 1..Len(tree.csv) |-> LoadCsvDocuments(tree.csv[i])])

(* load_all_text_documents: the CSV and contract files the globs find, and *)
(* the config document unless it is missing.                               *)
LoadAllTextDocuments(tree) ==
    LET config == LoadConfigDocument(tree.config)
    IN [result |-> "ok",
        docs |-> CsvDocuments(tree) \o LoadContractDocuments(tree.contract)
                 \o (IF config.raised THEN <<>> ELSE config.docs)]

(* _load_sample_text_documents: the same loaders over the fixed files,     *)
(* with the config document appended outside any try.                      *)
LoadSampleTextDocuments(tree) ==
    LET config == LoadConfigDocument(tree.config)
    IN IF config.raised THEN [result |-> "FileNotFoundError", docs |-> <<>>]
       ELSE [result |-> "ok",
             docs |-> CsvDocuments(tree) \o LoadContractDocuments(tree.contract)
                      \o config.docs]

LoadText(sample, tree) ==
    LET out == IF sample THEN LoadSampleTextDocuments(tree)
               ELSE LoadAllTextDocuments(tree)
    IN /\ last' = [NoOutcome EXCEPT
                     !.op = IF sample THEN "_load_sample_text_documents"
                            ELSE "load_all_text_documents",
                     !.tree = tree, !.result = out.result, !.returned = out.docs]
       /\ UNCHANGED <<qdrant, bm25>>

(***************************************************************************)

(* The embedding model (indexer.py, query_engine.py).                      *)
(***************************************************************************)
(* os.getenv(name): None when unset, and None and "" are both falsy. *)
GetenvTruthy(var) == var.set /\ var.value # ""

(* os.getenv(name, default) *)
Getenv(var, default) == IF var.set THEN var.value ELSE default

(* indexer.py, line 24 *)
INDEXER_DEFAULT_EMBEDDING_MODEL == "text-embedding-3-small"

(* query_engine.py, line 24 *)
QUERY_DEFAULT_EMBEDDING_MODEL == "text-embedding-3-large"

(* RAGIndexer.__init__ with no embedding_model argument, lines 55-59 *)
IndexerEmbeddingModel(env) ==
    IF GetenvTruthy(env.EMBEDDING_MODEL) THEN env.EMBEDDING_MODEL.value
    ELSE Getenv(env.EMBED_MODEL, INDEXER_DEFAULT_EMBEDDING_MODEL)

(* search_text, lines 121-124 *)
QueryEmbeddingModel(env) ==
    IF GetenvTruthy(env.EMBEDDING_MODEL) THEN env.EMBEDDING_MODEL.value
    ELSE Getenv(env.EMBED_MODEL, QUERY_DEFAULT_EMBEDDING_MODEL)

(* The model an indexer and a search_text call choose in one environment. *)
ResolveModels(env) ==
    /\ last' = [NoOutcome EXCEPT
                  !.op = "embedding_model", !.env = env,
                  !.models = [indexer |-> IndexerEmbeddingModel(env),
                              query |-> QueryEmbeddingModel(env)]]
    /\ UNCHANGED <<qdrant, bm25>>

(***************************************************************************)

(* The build command line (build_index.py).                                *)
(***************************************************************************)

(* Every target built, whatever the flags. *)
ResolveTargetsBoth(args) == [include_text |-> TRUE, include_assets |-> TRUE]

(* _resolve_targets *)
ResolveTargets(args) ==
    LET has_explicit_target == args.text \/ args.assets
    IN [include_text |-> args.text \/ ~has_explicit_target,
        include_assets |-> args.assets \/ ~has_explicit_target]

(* _load_documents: the loaders called, in order. *)
LoaderCalls(targets, sample) ==
    (IF targets.include_text
     THEN <<IF sample THEN "_load_sample_text_documents"
                      ELSE "load_all_text_documents">>
     ELSE <<>>)
    \o (IF targets.include_assets THEN <<"load_asset_documents">> ELSE <<>>)

(* len(doc.text): the chunk numbered i has 3i + 2 characters, and the     *)
(* chunk numbered 0 is the one with an empty text.                         *)
TextLen(doc) == IF doc.text = 0 THEN 0 ELSE 3 * doc.text + 2

(* Tokens counted by whole groups of four characters only. *)
EstimateTokensFloor(len) == len \div 4

(* _estimate_tokens *)
EstimateTokens(len) == IF len = 0 THEN 0 ELSE IF (len + 3) \div 4 < 1 THEN 1 ELSE (len + 3) \div 4

RECURSIVE SumTokens(_)
SumTokens(docs) ==
    IF docs = <<>> THEN 0
    ELSE EstimateTokens(TextLen(Head(docs))) + SumTokens(Tail(docs))

(* _EMBEDDING_COST_PER_1M_TOKENS_USD = 0.13, in units of 1e-8 USD a token. *)
COST_PER_TOKEN == 13

(* _estimate_documents; the cost is rounded to 8 decimals, and is kept     *)
(* here as the whole number of 1e-8 USD that rounding gives.               *)
EstimateDocuments(docs) ==
    LET estimated_tokens == SumTokens(docs)
        source_files == {MetaGet(docs[i].metadata, "source_file", EmptyStr) :
                            i \in 1..Len(docs)} \ {EmptyStr}
    IN [doc_count |-> IF source_files # {} THEN Cardinality(source_files)
                      ELSE Len(docs),
        chunk_count |-> Len(docs),
        estimated_tokens |-> estimated_tokens,
        estimated_cost_usd |-> estimated_tokens * COST_PER_TOKEN]

(* RAGIndexer._estimate_tokens *)
IndexerEstimateTokens(len) ==
    IF len = 0 THEN 0 ELSE IF (len + 3) \div 4 < 1 THEN 1 ELSE (len + 3) \div 4

RECURSIVE IndexerSumTokens(_)
IndexerSumTokens(docs) ==
    IF docs = <<>> THEN 0
    ELSE IndexerEstimateTokens(TextLen(Head(docs))) + IndexerSumTokens(Tail(docs))

(* indexer.py: _EMBEDDING_COST_PER_1M_TOKENS_USD = 0.13 *)
INDEXER_COST_PER_TOKEN == 13

(* RAGIndexer.estimate *)
IndexerEstimate(docs) ==
    LET estimated_tokens == IndexerSumTokens(docs)
    IN [chunk_count |-> Len(docs),
        estimated_tokens |-> estimated_tokens,
        estimated_cost_usd |-> estimated_tokens * INDEXER_COST_PER_TOKEN]

(* Both estimators applied to one list of chunks, and the tokens the       *)
(* command line counts for each chunk.                                     *)
Estimate(docs) ==
    /\ last' = [NoOutcome EXCEPT
                  !.op = "estimate", !.docs = docs,
                  !.returned = [i \in 1..Len(docs) |->
                                  EstimateTokens(TextLen(docs[i]))],
                  !.estimate = EstimateDocuments(docs),
                  !.indexer_estimate = IndexerEstimate(docs)]
    /\ UNCHANGED <<qdrant, bm25>>

(* A ceiling that is checked for its sign only. *)
ValidateCostCapSignOnly(max_cost_usd, estimated_cost_usd) ==
    IF max_cost_usd.isNone THEN [is_valid |-> TRUE, reason |-> "none"]
    ELSE IF max_cost_usd.usd < 0 THEN [is_valid |-> FALSE, reason |-> "Error"]
    ELSE [is_valid |-> TRUE, reason |-> "none"]

(* _validate_cost_cap *)
ValidateCostCap(max_cost_usd, estimated_cost_usd) ==
    IF max_cost_usd.isNone THEN [is_valid |-> TRUE, reason |-> "none"]
    ELSE IF max_cost_usd.usd < 0 THEN [is_valid |-> FALSE, reason |-> "Error"]
    ELSE IF estimated_cost_usd > max_cost_usd.usd
         THEN [is_valid |-> FALSE, reason |-> "Aborting"]
    ELSE [is_valid |-> TRUE, reason |-> "none"]

(* _read_collection_status; a local collection reports the status green. *)
ReadCollectionStatus(db, name) ==
    IF ~db[name].exists THEN [vector_count |-> 0, status |-> "missing"]
    ELSE [vector_count |-> Len(db[name].points), status |-> "green"]

(* check_indexes: what it prints. *)
CheckIndexes(db, dir, path_exists) ==
    [text |-> IF path_exists THEN ReadCollectionStatus(db, TEXT_COLLECTION)
              ELSE [vector_count |-> 0, status |-> "missing"],
     assets |-> IF path_exists THEN ReadCollectionStatus(db, ASSET_COLLECTION)
                ELSE [vector_count |-> 0, status |-> "missing"],
     bm25 |-> [status |-> IF dir.files # {} THEN "ready" ELSE "missing",
               file_count |-> Cardinality(dir.files)]]

(* check_indexes: the client is opened only over an existing directory,    *)
(* and closed in the finally clause.                                       *)
CheckSteps(path_exists) ==
    <<"check_indexes">>
    \o (IF path_exists
        THEN <<"open_client", "collection_exists", "collection_exists", "close_client">>
        ELSE <<>>)

(* A lexical build that replaces what the directory holds. *)
Bm25IndexRebuilt(dir, docs) == [files |-> PersistedFiles, corpus |-> docs]

(* build_text_index, build_bm25_index and build_asset_index over a         *)
(* non-empty list, as run calls them: the stores they leave.               *)
TextIndexBuilt(db, docs) ==
    StoreDocuments(ResetCollection(db, TEXT_COLLECTION), TEXT_COLLECTION, docs)

Bm25IndexBuilt(dir, docs) ==
    IF HasBm25Artifacts(dir) THEN dir ELSE [files |-> PersistedFiles, corpus |-> docs]

AssetIndexBuilt(db, docs) ==
    StoreDocuments(ResetCollection(db, ASSET_COLLECTION), ASSET_COLLECTION,
                   [i \in 1..Len(docs) |-> WithImagePath(docs[i])])

(* A status probe that gives way to --dry-run. *)
RunsCheckUnlessDryRun(args) == args.check /\ ~args.dry_run

(* run, lines 271-272 *)
RunsCheck(args) == args.check

(* A --dry-run flag that is parsed and never looked at. *)
DryRunIgnored(args) == FALSE

(* run, lines 288-290 *)
DryRunStops(args) == args.dry_run

(* run: the exit code, what was called and printed, and the stores it      *)
(* leaves.  text_loaded and asset_loaded are what the loaders return when  *)
(* they are called; path_exists tells whether the storage directory is     *)
(* there.  The runs taken here are those whose loaders return: a loader    *)
(* that raises (LoadSampleTextDocuments) ends the run before the estimate. *)
RunOutcome(args, text_loaded, asset_loaded, path_exists, db, dir) ==
    LET targets == ResolveTargets(args)
        text_docs == IF targets.include_text THEN text_loaded ELSE <<>>
        asset_docs == IF targets.include_assets THEN asset_loaded ELSE <<>>
        all_docs == text_docs \o asset_docs
        totals == EstimateDocuments(all_docs)
        verdict == ValidateCostCap(args.max_cost_usd, totals.estimated_cost_usd)
        pre == LoaderCalls(targets, args.sample)
               \o <<"_estimate_documents", "_print_estimate", "_validate_cost_cap">>
        build_text == targets.include_text /\ text_docs # <<>>
        build_assets == targets.include_assets /\ asset_docs # <<>>
        db1 == IF build_text THEN TextIndexBuilt(db, text_docs) ELSE db
        dir1 == IF build_text THEN Bm25IndexBuilt(dir, text_docs) ELSE dir
        db2 == IF build_assets THEN AssetIndexBuilt(db1, asset_docs) ELSE db1
        stopped == [exit_code |-> 1, steps |-> pre, printed |-> <<"Estimate">>,
                    docs |-> all_docs, estimate |-> totals, report |-> NoReport,
                    qdrant |-> db, bm25 |-> dir]
    IN IF RunsCheck(args)
       THEN [exit_code |-> 0, steps |-> CheckSteps(path_exists),
             printed |-> <<"Index status">>, docs |-> <<>>,
             estimate |-> NoEstimate, report |-> CheckIndexes(db, dir, path_exists),
             qdrant |-> db, bm25 |-> dir]
       ELSE IF ~verdict.is_valid
       THEN [stopped EXCEPT !.printed = <<"Estimate", verdict.reason>>]
       ELSE IF DryRunStops(args)
       THEN [stopped EXCEPT !.exit_code = 0,
                            !.printed = <<"Estimate", "Dry run complete">>]
       ELSE [stopped EXCEPT
               !.exit_code = 0,
               !.steps = pre \o <<"RAGIndexer", "open_client">>
                         \o (IF build_text
                             THEN <<"build_text_index", "build_bm25_index">>
                             ELSE <<>>)
                         \o (IF build_assets THEN <<"build_asset_index">> ELSE <<>>),
               !.printed = <<"Estimate">>
                           \o (IF targets.include_text /\ ~build_text
                               THEN <<"No text documents loaded">> ELSE <<>>)
                           \o (IF targets.include_assets /\ ~build_assets
                               THEN <<"No asset documents loaded">> ELSE <<>>),
               !.qdrant = db2, !.bm25 = dir1]

(* main(argv): one run of the command line. *)
RunCli(args, text_loaded, asset_loaded, path_exists) ==
    LET out == RunOutcome(args, text_loaded, asset_loaded, path_exists, qdrant, bm25)
    IN /\ qdrant' = out.qdrant
       /\ bm25' = out.bm25
       /\ last' = [NoOutcome EXCEPT !.op = "run", !.args = args,
                                    !.docs = out.docs, !.estimate = out.estimate,
                                    !.exit_code = out.exit_code, !.steps = out.steps,
                                    !.printed = out.printed, !.report = out.report]

(***************************************************************************)
(* The agent router (platform/api/agents/rag_router.py).                   *)
(***************************************************************************)
Calls == 1..MaxCalls

(* Session ids: 0 is the id a client of the API sends, c the uuid4 drawn   *)
(* in call c.                                                              *)
GivenSessionId == 0

Uuid4(c) == c

SessionIds == {GivenSessionId} \cup {Uuid4(c) : c \in Calls}

NoSession == [isNone |-> TRUE, id |-> GivenSessionId]

Session(id) == [isNone |-> FALSE, id |-> id]

(* Clients: the client created in call c is c; NoClient is no client. *)
NoClient == 0

APOLOGY == "I'm sorry, I wasn't able to process your question right now. Please try again."

(* What a call gave its caller: nothing yet, a record, or an exception. *)
NoResult ==
    [kind |-> "none",
     value |-> [reply |-> "", sources |-> "", session_id |-> GivenSessionId,
                agent_used |-> ""]]

Returned(reply, sources, session_id, agent_used) ==
    [kind |-> "returned",
     value |-> [reply |-> reply, sources |-> sources, session_id |-> session_id,
                agent_used |-> agent_used]]

Raised == [NoResult EXCEPT !.kind = "raised"]

NotCalled ==
    [pc |-> "none", session_arg |-> NoSession, session_id |-> GivenSessionId,
     client |-> NoClient,
     agent_failed |-> "none", fallback_failed |-> FALSE, result |-> NoResult]

(* lines 130-135 *)
AgentAnswer(session_id) == Returned("agent reply", "from reply", session_id, "rag-analyst")

(* lines 146-151 *)
FallbackAnswer(session_id) ==
    Returned("fallback reply", "none", session_id, "file-reader-fallback")

(* A second handler that logs and lets the exception go on. *)
ApologyAnswerReraised(session_id) == Raised

(* lines 152-159 *)
ApologyAnswer(session_id) == Returned(APOLOGY, "none", session_id, "file-reader-fallback")

(* lines 117-125: the call starts, settles its session id and looks the    *)
(* session up; it then awaits _create_client or client.query.              *)
StartCall(c, session_arg) ==
    LET session_id == IF session_arg.isNone THEN Uuid4(c) ELSE session_arg.id
        client == sessions[session_id]
    IN /\ routing[c].pc = "none"
       /\ routing' = [routing EXCEPT ![c] =
             [@ EXCEPT !.pc = IF client = NoClient THEN "_create_client" ELSE "query",
                       !.session_arg = session_arg,
                       !.session_id = session_id, !.client = client]]
       /\ UNCHANGED <<cli, qdrant, bm25, last, sessions>>

(* lines 124-127: the client is connected, stored, and the query awaited. *)
ClientCreated(c) ==
    /\ routing[c].pc = "_create_client"
    /\ sessions' = [sessions EXCEPT ![routing[c].session_id] = c]
    /\ routing' = [routing EXCEPT ![c] = [@ EXCEPT !.pc = "query", !.client = c]]
    /\ UNCHANGED <<cli, qdrant, bm25, last>>

(* lines 127-128 *)
QueryDone(c) ==
    /\ routing[c].pc = "query"
    /\ routing' = [routing EXCEPT ![c] = [@ EXCEPT !.pc = "_extract_reply"]]
    /\ UNCHANGED <<cli, qdrant, bm25, last, sessions>>

(* lines 128-135 *)
ReplyExtracted(c) ==
    /\ routing[c].pc = "_extract_reply"
    /\ routing' = [routing EXCEPT ![c] =
          [@ EXCEPT !.pc = "done", !.result = AgentAnswer(routing[c].session_id)]]
    /\ UNCHANGED <<cli, qdrant, bm25, last, sessions>>

(* An exception handler that leaves the session where it is. *)
AgentFailedKeepsSession(c) ==
    /\ routing[c].pc \in {"_create_client", "query", "_extract_reply"}
    /\ routing' = [routing EXCEPT ![c] =
          [@ EXCEPT !.pc = "ask_marketing_question", !.agent_failed = routing[c].pc]]
    /\ UNCHANGED <<cli, qdrant, bm25, last, sessions>>

(* lines 137-145: an exception out of _create_client, query or             *)
(* _extract_reply; the session is dropped and the fallback awaited.        *)
AgentFailed(c) ==
    /\ routing[c].pc \in {"_create_client", "query", "_extract_reply"}
    /\ sessions' = [sessions EXCEPT ![routing[c].session_id] = NoClient]
    /\ routing' = [routing EXCEPT ![c] =
          [@ EXCEPT !.pc = "ask_marketing_question", !.agent_failed = routing[c].pc]]
    /\ UNCHANGED <<cli, qdrant, bm25, last>>

(* lines 145-151 *)
FallbackDone(c) ==
    /\ routing[c].pc = "ask_marketing_question"
    /\ routing' = [routing EXCEPT ![c] =
          [@ EXCEPT !.pc = "done", !.result = FallbackAnswer(routing[c].session_id)]]
    /\ UNCHANGED <<cli, qdrant, bm25, last, sessions>>

(* lines 152-159 *)
FallbackFailed(c) ==
    /\ routing[c].pc = "ask_marketing_question"
    /\ routing' = [routing EXCEPT ![c] =
          [@ EXCEPT !.pc = "done", !.fallback_failed = TRUE,
                    !.result = ApologyAnswer(routing[c].session_id)]]
    /\ UNCHANGED <<cli, qdrant, bm25, last, sessions>>

(***************************************************************************)
(* One run of build_index.py --text, step by step (run, lines 292-300),    *)
(* beside the calls of other processes.  first and latest are the chunk    *)
(* lists of the first and of the latest run that completed.                *)
(***************************************************************************)
NoRun == [pc |-> "none", docs |-> <<>>, failed |-> FALSE,
          first |-> <<>>, latest |-> <<>>]

(* A storage folder that any number of clients may open. *)
StorageNeverHeld(run) == FALSE

(* QdrantClient(path=...) takes the exclusive lock of the local storage    *)
(* folder; the indexer's client is never closed, so the folder is held     *)
(* from RAGIndexer() to the end of the process.                            *)
StorageHeld(run) == run.pc # "none"

(* run, line 292: RAGIndexer() for the loaded text chunks. *)
CliConstruct(docs) ==
    /\ cli.pc = "none"
    /\ docs # <<>>
    /\ cli' = [cli EXCEPT !.pc = "build_text_index", !.docs = docs, !.failed = FALSE]
    /\ UNCHANGED <<qdrant, bm25, last>>

(* build_text_index, line 92: the collection is dropped. *)
CliReset ==
    /\ cli.pc = "build_text_index"
    /\ qdrant' = ResetCollection(qdrant, TEXT_COLLECTION)
    /\ cli' = [cli EXCEPT !.pc = "from_documents"]
    /\ UNCHANGED <<bm25, last>>

(* build_text_index, lines 101-106: the chunks are embedded and stored. *)
CliStore ==
    /\ cli.pc = "from_documents"
    /\ qdrant' = StoreDocuments(qdrant, TEXT_COLLECTION, cli.docs)
    /\ cli' = [cli EXCEPT !.pc = "build_bm25_index"]
    /\ UNCHANGED <<bm25, last>>

(* What from_documents leaves when it fails: nothing when the embedding    *)
(* fails, a collection with fewer points than chunks when the storage does.*)
FailedStores(db, name, docs) ==
    {db} \cup {StoreDocuments(db, name, SubSeq(docs, 1, n)) : n \in 0..(Len(docs) - 1)}

(* build_text_index, lines 101-106, failing: nothing catches the error, in *)
(* build_text_index or in run, and the process ends.                       *)
CliStoreFails ==
    /\ cli.pc = "from_documents"
    /\ qdrant' \in FailedStores(qdrant, TEXT_COLLECTION, cli.docs)
    /\ cli' = [cli EXCEPT !.pc = "none", !.failed = TRUE]
    /\ UNCHANGED <<bm25, last>>

(* run, lines 299-300 and 309: build_bm25_index, and the process ends. *)
CliBm25 ==
    /\ cli.pc = "build_bm25_index"
    /\ bm25' = Bm25IndexBuilt(bm25, cli.docs)
    /\ cli' = [cli EXCEPT !.pc = "none",
                          !.first = IF cli.first = <<>> THEN cli.docs ELSE @,
                          !.latest = cli.docs]
    /\ UNCHANGED <<qdrant, last>>

(* RAGIndexer() in a second process while a run holds the storage folder. *)
CliRefused ==
    /\ StorageHeld(cli)
    /\ last' = [NoOutcome EXCEPT !.op = "RAGIndexer", !.result = "RuntimeError"]
    /\ UNCHANGED <<qdrant, bm25, cli>>

(* search_text in another process: its QdrantClient(path=...), line 128,   *)
(* raises when a run holds the storage folder.                             *)
ConcurrentSearchText(query, top_k, category) ==
    IF /\ StorageHeld(cli)
       /\ ValidationError(query, top_k) = "none"
       /\ ~Bm25Missing(bm25)
    THEN /\ last' = [NoOutcome EXCEPT
                       !.op = "search_text", !.query = query, !.top_k = top_k,
                       !.category = category, !.result = "RuntimeError",
                       !.steps = <<"validate", "check_bm25", "open_client">>]
         /\ UNCHANGED <<qdrant, bm25, cli>>
    ELSE /\ SearchText(query, top_k, category)
         /\ UNCHANGED cli

(***************************************************************************)
(* The inputs of the calls.                                                *)
(***************************************************************************)
Queries == {EmptyStr, Str(" "), <<" ", "q">>}

TopKs == {-1} \cup (0..MaxTopK)

CategoryArgs ==
    {None, Some(EmptyStr), Some(Str(" ")), Some(Str("a")), Some(Str("A")),
     Some(<<" ", "a">>), Some(Str("b")), Some(Str("c"))}

ChannelArgs == {None, Some(Str("m")), Some(<<" ", "M">>), Some(Str("u"))}

(* --max-cost-usd: not given, negative, zero, and the price of four tokens. *)
CostCaps == {NoCap} \cup {Cap(c) : c \in {-1, 0, 52}}

Args ==
    [check : BOOLEAN, dry_run : BOOLEAN, text : BOOLEAN, assets : BOOLEAN,
     sample : BOOLEAN, max_cost_usd : CostCaps]

(* The CSV files: missing, empty, header only, and 1..MaxRows data rows. *)
CsvFiles ==
    {NoFile} \cup {[exists |-> TRUE, rows |-> [i \in 1..n |-> i - 1]] : n \in 0..(MaxRows + 1)}

SessionArgs == {NoSession, Session(GivenSessionId)}

(* A source CSV file: missing, header only, or with one data row. *)
SourceCsvFiles ==
    {NoFile} \cup {[exists |-> TRUE, rows |-> [i \in 1..n |-> i - 1]] : n \in 1..2}

Trees == [csv : [1..3 -> SourceCsvFiles], contract : BOOLEAN, config : BOOLEAN]

(* Chunks handed to the estimators: any text, with or without a source. *)
EstimateChunks ==
    [text : 0..MaxDocs,
     metadata : {[category |-> Str("a")]}
                \cup {[source_file |-> f] : f \in {EmptyStr, Str("f"), Str("g")}}]

EstimateDocLists ==
    UNION {[1..n -> EstimateChunks] : n \in 0..MaxEstimateDocs}

(* The chunk lists a run loads: any run of consecutive chunks. *)
BuildDocLists ==
    {[i \in 1..n |-> TextChunk(a + i - 1)] : a \in 1..MaxDocs, n \in 1..MaxDocs}
    \cap UNION {[1..n -> {TextChunk(i) : i \in 1..MaxDocs}] : n \in 1..MaxDocs}

(* The searches made beside a build: a valid query, no category. *)
BuildTopKs == 1..MaxBuildTopK

EnvValues == {Unset} \cup {SetTo(v) : v \in {"", "model-a", "model-b"}}

Envs == [EMBEDDING_MODEL : EnvValues, EMBED_MODEL : EnvValues]

Init ==
    /\ qdrant = [c \in Collections |-> Absent]
    /\ bm25 = EmptyDir
    /\ last = NoOutcome
    /\ sessions = [s \in SessionIds |-> NoClient]
    /\ routing = [c \in Calls |-> NotCalled]
    /\ cli = NoRun

(* Calls are synchronous: a call starts when no result is pending ...      *)
Idle == last.op = "none"

DoBuildTextIndex ==
    /\ Idle
    /\ \E docs \in TextDocLists : BuildTextIndex(docs)
    /\ UNCHANGED <<sessions, routing, cli>>

DoBuildAssetIndex ==
    /\ Idle
    /\ \E docs \in AssetDocLists : BuildAssetIndex(docs)
    /\ UNCHANGED <<sessions, routing, cli>>

DoBuildBm25Index ==
    /\ Idle
    /\ \E docs \in TextDocLists : BuildBm25Index(docs)
    /\ UNCHANGED <<sessions, routing, cli>>

DoSearchText ==
    /\ Idle
    /\ \E query \in Queries, top_k \in TopKs, category \in CategoryArgs :
          SearchText(query, top_k, category)
    /\ UNCHANGED <<sessions, routing, cli>>

DoSearchAssets ==
    /\ Idle
    /\ \E query \in Queries, top_k \in TopKs, channel \in ChannelArgs :
          SearchAssets(query, top_k, channel)
    /\ UNCHANGED <<sessions, routing, cli>>

(* The storage directory is there once a collection is; before that it may *)
(* or may not be.  A loader that is not called returns nothing.            *)
DoRunCli ==
    /\ Idle
    /\ \E args \in Args :
       \E text_loaded \in (IF ~args.check /\ ResolveTargets(args).include_text
                           THEN TextDocLists ELSE {<<>>}),
          asset_loaded \in (IF ~args.check /\ ResolveTargets(args).include_assets
                            THEN AssetDocLists ELSE {<<>>}),
          path_exists \in (IF \E c \in Collections : qdrant[c].exists
                           THEN {TRUE} ELSE BOOLEAN) :
          RunCli(args, text_loaded, asset_loaded, path_exists)
    /\ UNCHANGED <<sessions, routing, cli>>

DoLoadCsv ==
    /\ Idle
    /\ \E csv_file \in CsvFiles : LoadCsv(csv_file)
    /\ UNCHANGED <<sessions, routing, cli>>

(* ... and ends when its caller has taken the result or the error.         *)
Return ==
    /\ ~Idle
    /\ last' = NoOutcome
    /\ UNCHANGED <<qdrant, bm25, sessions, routing, cli>>

Next ==
    \/ DoBuildTextIndex
    \/ DoBuildAssetIndex
    \/ DoBuildBm25Index
    \/ DoSearchText
    \/ DoSearchAssets
    \/ DoRunCli
    \/ DoLoadCsv
    \/ Return

Spec == Init /\ [][Next]_vars


(***************************************************************************)
(* Properties.                                                             *)
(***************************************************************************)
TextPoints == qdrant[TEXT_COLLECTION].points
AssetPoints == qdrant[ASSET_COLLECTION].points

SearchReturned == last.op = "search_text" /\ last.result = "ok"

(* C1: build_bm25_index called when the artifact directory has at least    *)
(* one entry returns the persisted retriever, builds no term statistics    *)
(* and leaves the directory as it was, whatever docs it is given.          *)
C1_LexicalBuildLoads ==
    [][(Idle /\ last'.op = "build_bm25_index" /\ bm25.files # {}) =>
          /\ bm25' = bm25
          /\ last'.result = "loaded"
          /\ ~last'.rebuilt
          /\ last'.steps = <<"load">>
          /\ last'.returned = bm25.corpus]_vars

C1_Witness ==
    /\ last.op = "build_bm25_index"
    /\ last.result = "loaded"
    /\ last.docs = <<>>
    /\ bm25.corpus # <<>>

(* C2: after a semantic build with a chunk list of N > 0 items the target  *)
(* collection holds exactly N items, also when the collection already held *)
(* the items of an earlier build.                                          *)
C2_RebuildKeepsCount ==
    /\ (last.op = "build_text_index" /\ last.result = "ok") =>
           (qdrant[TEXT_COLLECTION].exists /\ Len(TextPoints) = Len(last.docs))
    /\ (last.op = "build_asset_index" /\ last.result = "ok") =>
           (qdrant[ASSET_COLLECTION].exists /\ Len(AssetPoints) = Len(last.docs))

C2_Witness ==
    /\ last.op = "build_text_index"
    /\ last.result = "ok"
    /\ last.dropped = Len(last.docs)
    /\ Len(TextPoints) = Len(last.docs)
    /\ Len(last.docs) > 1

(* C3: a search_text call with top_k > 0 that returns, returns at most     *)
(* top_k items.                                                            *)
C3_AtMostTopK == SearchReturned => Len(last.returned) <= last.top_k

C3_Witness ==
    /\ SearchReturned
    /\ Len(last.returned) = last.top_k
    /\ Cardinality(Range(last.dense) \cup Range(last.lex)) > last.top_k


(* C4: every item search_text returns under a category filter has the      *)
(* requested category as its metadata category (the requested value taken  *)
(* as both filters take it, trimmed).                                      *)
C4_ReturnedCategoryIsRequested ==
    (SearchReturned /\ Truthy(last.category)) =>
        \A i \in 1..Len(last.returned) :
            /\ "category" \in DOMAIN last.returned[i].metadata
            /\ last.returned[i].metadata.category = Strip(last.category.str)

NonIncreasing(items) ==
    \A i, j \in 1..Len(items) : i < j => items[i].score >= items[j].score

(* C5: the list search_text returns is ordered by non-increasing fused     *)
(* score.                                                                  *)
C5_ScoresNonIncreasing == SearchReturned => NonIncreasing(last.returned)

C5_Witness ==
    /\ SearchReturned
    /\ Truthy(last.category)
    /\ Len(last.returned) >= 2
    /\ last.returned[1].score > last.returned[2].score
    /\ Len(last.fused) > Len(last.returned)

(* What reciprocal rank fusion owes a node: 1/(rank + 60) from each of the *)
(* two retrievers that returned it, rank counted from 0.                   *)
RankShare(list, node) ==
    IF \E i \in 1..Len(list) : list[i] = node
    THEN RRFScale \div (RRF_K + (CHOOSE i \in 1..Len(list) : list[i] = node) - 1)
    ELSE 0

ExpectedScore(node) == RankShare(last.dense, node) + RankShare(last.lex, node)

Candidates == Range(last.dense) \cup Range(last.lex)

(* C6: the fused list holds each candidate once, scored with the sum of    *)
(* 1/(rank + 60) over the retrievers that returned it, sorted by           *)
(* descending score and cut at top_k; each retriever is called once, for   *)
(* the one query.                                                          *)
C6_FusionIsReciprocalRank ==
    SearchReturned =>
        /\ last.calls = <<"vector", "bm25">>
        /\ \A i \in 1..Len(last.fused) :
              /\ last.fused[i].node \in Candidates
              /\ last.fused[i].score = ExpectedScore(last.fused[i].node)
        /\ \A i, j \in 1..Len(last.fused) :
              i # j => last.fused[i].node # last.fused[j].node
        /\ NonIncreasing(last.fused)
        /\ Len(last.fused) = Min(last.top_k, Cardinality(Candidates))
        /\ \A n \in Candidates :
              (\A i \in 1..Len(last.fused) : last.fused[i].node # n) =>
                  ExpectedScore(n) <= last.fused[Len(last.fused)].score

C6_Witness ==
    /\ SearchReturned
    /\ \E n \in Range(last.dense) \cap Range(last.lex) :
          RankShare(last.dense, n) # RankShare(last.lex, n)
    /\ \E n \in Range(last.lex) : n \notin Range(last.dense)
    /\ Len(last.fused) >= 2
    /\ last.fused[1].score > last.fused[2].score

ReachedLexical == last.op = "search_text" /\ "load_bm25" \in Range(last.steps)

(* C7: the top_k handed to the lexical retriever never exceeds the number  *)
(* of indexed documents, so the ranker never refuses it and returns at     *)
(* most that many results.                                                 *)
C7_LexicalTopKClamped ==
    ReachedLexical =>
        /\ last.bm25_k <= Len(bm25.corpus)
        /\ last.bm25_k <= last.top_k
        /\ last.bm25_k >= 1
        /\ last.result # "RankerError"
        /\ Len(last.lex) <= Len(bm25.corpus)

C7_Witness ==
    /\ SearchReturned
    /\ last.top_k > Len(bm25.corpus)
    /\ last.bm25_k = Len(bm25.corpus)
    /\ Len(last.lex) = Len(bm25.corpus)

Blank(q) == \A i \in 1..Len(q) : q[i] = " "

(* C8: a blank query or a top_k <= 0 ends search_text in ValueError in the *)
(* Validate step, before the artifacts are checked, a client is opened or  *)
(* a retriever is called.                                                  *)
C8_InvalidInputFirst ==
    (last.op = "search_text" /\ (Blank(last.query) \/ last.top_k <= 0)) =>
        /\ last.result = "ValueError"
        /\ last.steps = <<"validate">>

C8_Witness ==
    /\ last.op = "search_text"
    /\ last.result = "ValueError"
    /\ ~Blank(last.query)
    /\ last.top_k <= 0
    /\ bm25.files = {}
    /\ ~qdrant[TEXT_COLLECTION].exists

(* C9: with valid arguments search_text ends in FileNotFoundError whenever *)
(* the lexical artifacts or the text collection are absent; the error      *)
(* names an index that is missing and says to run the build, and no list   *)
(* is returned.                                                            *)
C9_MissingIndexNotFound ==
    (/\ last.op = "search_text"
     /\ ~Blank(last.query)
     /\ last.top_k > 0
     /\ (bm25.files = {} \/ ~qdrant[TEXT_COLLECTION].exists)) =>
        /\ last.result = "FileNotFoundError"
        /\ last.build_hint
        /\ last.returned = <<>>
        /\ \/ last.missing = "bm25" /\ bm25.files = {}
           \/ last.missing = TEXT_COLLECTION /\ ~qdrant[TEXT_COLLECTION].exists

C9_Witness ==
    /\ last.op = "search_text"
    /\ last.result = "FileNotFoundError"
    /\ last.missing = TEXT_COLLECTION
    /\ bm25.files # {}

(* The requested category is the category of no indexed chunk, as the      *)
(* filters compare them.                                                   *)
NoChunkInCategory(category) ==
    \A n \in Range(TextPoints) \cup Range(bm25.corpus) :
        LowerStr(MetaGet(n.metadata, "category", EmptyStr))
            # LowerStr(Strip(category.str))

(* C10: with both indexes present and a category filter that matches no    *)
(* indexed chunk, search_text returns the empty list and raises nothing.   *)
C10_NoMatchIsEmptyResult ==
    (/\ last.op = "search_text"
     /\ ~Blank(last.query)
     /\ last.top_k > 0
     /\ bm25.files # {}
     /\ qdrant[TEXT_COLLECTION].exists
     /\ Truthy(last.category)
     /\ NoChunkInCategory(last.category)) =>
        /\ last.result = "ok"
        /\ last.returned = <<>>

C10_Witness ==
    /\ SearchReturned
    /\ last.category = Some(Str("c"))
    /\ last.lex # <<>>
    /\ last.returned = <<>>

BuildOps == {"build_text_index", "build_asset_index", "build_bm25_index"}

(* C12: a build given an empty chunk list (build_text_index,               *)
(* build_asset_index, and build_bm25_index when no artifacts exist) raises *)
(* ValueError and leaves the stored state as it was: no collection is      *)
(* dropped and no lexical artifact is written.                             *)
C12_EmptyBuildChangesNothing ==
    [][(/\ Idle
        /\ last'.op \in BuildOps
        /\ last'.docs = <<>>
        /\ (last'.op = "build_bm25_index" => bm25.files = {})) =>
           /\ last'.result = "ValueError"
           /\ qdrant' = qdrant
           /\ bm25' = bm25]_vars

C12_Witness ==
    /\ last.op = "build_text_index"
    /\ last.docs = <<>>
    /\ last.result = "ValueError"
    /\ TextPoints # <<>>
    /\ AssetPoints # <<>>

(* C13: every document build_asset_index stores carries an image_path: a   *)
(* value the document came with is kept, a missing one becomes "", nothing *)
(* else of the document changes, and the stamping precedes the reset and   *)
(* the embedding.                                                          *)
C13_AssetsCarryImagePath ==
    (last.op = "build_asset_index" /\ last.result = "ok") =>
        /\ Len(AssetPoints) = Len(last.docs)
        /\ \A i \in 1..Len(AssetPoints) :
              LET given == AssetChunk(AssetPoints[i].text).metadata
                  stored == AssetPoints[i].metadata
              IN /\ "image_path" \in DOMAIN stored
                 /\ stored.image_path =
                       IF "image_path" \in DOMAIN given
                       THEN given.image_path ELSE EmptyStr
                 /\ DOMAIN stored = DOMAIN given \cup {"image_path"}
                 /\ \A k \in DOMAIN given \ {"image_path"} : stored[k] = given[k]
        /\ last.steps = <<"stamp", "reset", "store">>

C13_Witness ==
    /\ last.op = "build_asset_index"
    /\ last.result = "ok"
    /\ \E i, j \in 1..Len(AssetPoints) :
          /\ AssetPoints[i].metadata.image_path = EmptyStr
          /\ AssetPoints[j].metadata.image_path # EmptyStr

(* C11: search_assets has the contract of search_text with the filter on   *)
(* channel: invalid input is a ValueError, and over an asset collection    *)
(* built from assets that all have one channel, a request for a channel    *)
(* none of them has returns the empty list and raises nothing.             *)
C11_UnknownChannelIsEmptyResult ==
    last.op = "search_assets" =>
        /\ (Blank(last.query) \/ last.top_k <= 0) => last.result = "ValueError"
        /\ (/\ ~Blank(last.query)
            /\ last.top_k > 0
            /\ AssetPoints # <<>>
            /\ Truthy(last.channel)
            /\ \A n \in Range(AssetPoints) :
                  LowerStr(n.metadata.channel) # LowerStr(Strip(last.channel.str))) =>
               /\ last.result = "ok"
               /\ last.returned = <<>>
        /\ last.result = "ok" =>
               /\ Len(last.returned) <= last.top_k
               /\ Truthy(last.channel) =>
                      \A i \in 1..Len(last.returned) :
                          LowerStr(last.returned[i].metadata.channel)
                              = LowerStr(Strip(last.channel.str))

C11_Witness ==
    /\ last.op = "search_assets"
    /\ last.result = "ok"
    /\ last.channel = Some(Str("u"))
    /\ Len(AssetPoints) >= 2
    /\ \A n \in Range(AssetPoints) : n.metadata.channel = Str("m")
    /\ last.returned = <<>>
    /\ ~qdrant[TEXT_COLLECTION].exists

(* What a finished command-line run called, and the builds among it. *)
Called(step) == step \in Range(last'.steps)

BuildSteps(steps) == SelectSeq(steps, LAMBDA step : step \in BuildOps)

(* C14: a run with --dry-run prints the estimate and builds nothing, for   *)
(* every combination of --text, --assets and --sample: no indexer is       *)
(* constructed, no collection is dropped or created, and no lexical        *)
(* artifact is written.                                                    *)
C14_DryRunBuildsNothing ==
    [][(/\ Idle
        /\ last'.op = "run"
        /\ last'.args.dry_run
        /\ ~last'.args.check) =>
           /\ "Estimate" \in Range(last'.printed)
           /\ ~Called("RAGIndexer")
           /\ BuildSteps(last'.steps) = <<>>
           /\ qdrant' = qdrant
           /\ bm25' = bm25]_vars

C14_Witness ==
    /\ last.op = "run"
    /\ last.args.dry_run
    /\ ~last.args.check
    /\ last.args.sample
    /\ last.args.max_cost_usd = NoCap
    /\ last.exit_code = 0
    /\ last.estimate.chunk_count = MaxDocs + MaxAssets
    /\ ~qdrant[TEXT_COLLECTION].exists
    /\ bm25.files = {}

(* C15: with --max-cost-usd given and the estimate above the ceiling, the  *)
(* run ends with exit code 1 before the indexer is constructed or a build  *)
(* begins; a build method is called only in a run with no ceiling or with  *)
(* an estimate of at most the non-negative ceiling.                        *)
C15_CostCeilingStopsBuild ==
    [][(/\ Idle
        /\ last'.op = "run"
        /\ ~last'.args.check) =>
           LET cap == last'.args.max_cost_usd
               cost == last'.estimate.estimated_cost_usd
           IN /\ (~cap.isNone /\ cost > cap.usd) =>
                    /\ last'.exit_code = 1
                    /\ ~Called("RAGIndexer")
                    /\ BuildSteps(last'.steps) = <<>>
                    /\ qdrant' = qdrant
                    /\ bm25' = bm25
              /\ BuildSteps(last'.steps) # <<>> =>
                    \/ cap.isNone
                    \/ (cap.usd >= 0 /\ cost <= cap.usd)]_vars

C15_Witness ==
    /\ last.op = "run"
    /\ ~last.args.check
    /\ ~last.args.dry_run
    /\ last.args.max_cost_usd = Cap(52)
    /\ last.estimate.estimated_cost_usd > 52
    /\ last.exit_code = 1
    /\ last.printed = <<"Estimate", "Aborting">>

(* The exit code of the same run given a negative --max-cost-usd. *)
InvalidCapExitCode ==
    RunOutcome([last.args EXCEPT !.max_cost_usd = Cap(-1)],
               SelectSeq(last.docs, LAMBDA d : "channel" \notin DOMAIN d.metadata),
               SelectSeq(last.docs, LAMBDA d : "channel" \in DOMAIN d.metadata),
               TRUE, qdrant, bm25).exit_code

(* C22: a run stopped because the estimate exceeds the cost ceiling ends   *)
(* with an exit status different from the one of a run rejected for an     *)
(* error such as a negative --max-cost-usd.                                *)
C22_AbortDistinctFromError ==
    (/\ last.op = "run"
     /\ last.printed = <<"Estimate", "Aborting">>) =>
        last.exit_code # InvalidCapExitCode

(* The loaded chunks of a run that belong to the text corpus and to the    *)
(* asset corpus: an asset chunk is one that carries a channel.             *)
LoadedText(docs) == SelectSeq(docs, LAMBDA d : "channel" \notin DOMAIN d.metadata)

LoadedAssets(docs) == SelectSeq(docs, LAMBDA d : "channel" \in DOMAIN d.metadata)

TextLoaders == {"load_all_text_documents", "_load_sample_text_documents"}

(* C16: with neither --text nor --assets both targets are loaded and       *)
(* built; with --text alone the text collection and then the lexical index *)
(* are built and the asset loader and the asset build are never called;    *)
(* with --assets alone only the asset collection is built and the text     *)
(* loader, the text build and the lexical build are never called.          *)
C16_TargetSelection ==
    (last.op = "run" /\ ~last.args.check) =>
        LET steps == Range(last.steps)
            built == BuildSteps(last.steps)
            reached == "RAGIndexer" \in steps
            text_built == IF LoadedText(last.docs) # <<>>
                          THEN <<"build_text_index", "build_bm25_index">> ELSE <<>>
            assets_built == IF LoadedAssets(last.docs) # <<>>
                            THEN <<"build_asset_index">> ELSE <<>>
        IN /\ (~last.args.text /\ ~last.args.assets) =>
                 /\ steps \cap TextLoaders # {}
                 /\ "load_asset_documents" \in steps
                 /\ reached => built = text_built \o assets_built
           /\ (last.args.text /\ ~last.args.assets) =>
                 /\ "load_asset_documents" \notin steps
                 /\ "build_asset_index" \notin steps
                 /\ reached => built = text_built
           /\ (last.args.assets /\ ~last.args.text) =>
                 /\ steps \cap TextLoaders = {}
                 /\ "build_text_index" \notin steps
                 /\ "build_bm25_index" \notin steps
                 /\ reached => built = assets_built

C16_Witness ==
    /\ last.op = "run"
    /\ ~last.args.check
    /\ last.args.text
    /\ ~last.args.assets
    /\ BuildSteps(last.steps) = <<"build_text_index", "build_bm25_index">>
    /\ Len(TextPoints) = MaxDocs
    /\ ~qdrant[ASSET_COLLECTION].exists

(* C17: --check is a read-only probe that wins over every other flag: it   *)
(* reports each collection as missing with count 0 or with its vector      *)
(* count and status, the lexical index as ready exactly when its directory *)
(* holds a file; it loads no documents, constructs no indexer, and leaves  *)
(* the collections and the lexical artifacts as they were.                 *)
C17_CheckIsReadOnlyProbe ==
    [][(/\ Idle
        /\ last'.op = "run"
        /\ last'.args.check) =>
           /\ last'.exit_code = 0
           /\ \A c \in Collections :
                LET line == IF c = TEXT_COLLECTION THEN last'.report.text
                            ELSE last'.report.assets
                IN IF qdrant[c].exists
                   THEN /\ line.vector_count = Len(qdrant[c].points)
                        /\ line.status \notin {"missing", "none"}
                   ELSE line = [vector_count |-> 0, status |-> "missing"]
           /\ last'.report.bm25.status \in {"ready", "missing"}
           /\ last'.report.bm25.status = "ready" <=> bm25.files # {}
           /\ Range(last'.steps) \cap (TextLoaders \cup {"load_asset_documents"}) = {}
           /\ ~Called("RAGIndexer")
           /\ BuildSteps(last'.steps) = <<>>
           /\ last'.docs = <<>>
           /\ qdrant' = qdrant
           /\ bm25' = bm25]_vars

C17_Witness ==
    /\ last.op = "run"
    /\ last.args.check
    /\ last.args.dry_run
    /\ last.args.text
    /\ last.args.max_cost_usd = Cap(-1)
    /\ last.report.text.vector_count > 0
    /\ last.report.assets.status = "missing"
    /\ last.report.bm25.status = "ready"

(* The data rows of the file a CSV load read. *)
DataRows == IF last.file.exists /\ last.file.rows # <<>> THEN Tail(last.file.rows) ELSE <<>>

RECURSIVE ChunkRows(_)
ChunkRows(chunks) ==
    IF chunks = <<>> THEN <<>> ELSE Tail(Head(chunks).text) \o ChunkRows(Tail(chunks))

(* C18: for a CSV file with N >= 1 data rows load_csv_documents returns    *)
(* ceil(N/20) chunks in row order; chunk i holds the header and the data   *)
(* rows 20(i-1)+1 .. min(20i, N), with that interval as row_range and N as *)
(* total_rows, so the chunks' rows are a disjoint cover of 1..N; a missing *)
(* file or a file with no data rows gives no chunks.                       *)
C18_CsvChunking ==
    last.op = "load_csv_documents" =>
        LET N == Len(DataRows)
            chunks == last.returned
        IN IF N = 0 THEN chunks = <<>>
           ELSE /\ Len(chunks) = (N + 19) \div 20
                /\ \A i \in 1..Len(chunks) :
                     LET first == 20 * (i - 1) + 1
                         final == IF 20 * i < N THEN 20 * i ELSE N
                     IN /\ chunks[i].text
                             = <<last.file.rows[1]>> \o [j \in 1..(final - first + 1) |->
                                                           DataRows[first + j - 1]]
                        /\ chunks[i].metadata.row_range
                             = [row_start |-> first, row_end |-> final]
                        /\ chunks[i].metadata.total_rows = N
                /\ ChunkRows(chunks) = DataRows

C18_Witness ==
    /\ last.op = "load_csv_documents"
    /\ Len(DataRows) = 41
    /\ Len(last.returned) = 3
    /\ last.returned[3].metadata.row_range = [row_start |-> 41, row_end |-> 41]
    /\ last.returned[2].metadata.row_range = [row_start |-> 21, row_end |-> 40]

(***************************************************************************)
(* The agent router on its own: the calls the API serves, interleaved at   *)
(* their awaits.                                                           *)
(***************************************************************************)
(* The session ids the answers so far have handed out. *)
IssuedSessionArgs ==
    {Session(routing[d].result.value.session_id) :
        d \in {e \in Calls : routing[e].pc = "done"}}

DoStartCall ==
    \E c \in Calls, session_arg \in SessionArgs \cup IssuedSessionArgs :
        StartCall(c, session_arg)

DoClientCreated == \E c \in Calls : ClientCreated(c)

DoQueryDone == \E c \in Calls : QueryDone(c)

DoReplyExtracted == \E c \in Calls : ReplyExtracted(c)

DoAgentFailed == \E c \in Calls : AgentFailed(c)

DoFallbackDone == \E c \in Calls : FallbackDone(c)

DoFallbackFailed == \E c \in Calls : FallbackFailed(c)

RouterNext ==
    \/ DoStartCall
    \/ DoClientCreated
    \/ DoQueryDone
    \/ DoReplyExtracted
    \/ DoAgentFailed
    \/ DoFallbackDone
    \/ DoFallbackFailed

SpecRouter == Init /\ [][RouterNext]_vars

(* C19: ask_with_routing never raises: whatever the input and whichever of *)
(* client creation, query and reply extraction fails, it returns a record  *)
(* with the keys reply, sources, session_id and agent_used; after an agent *)
(* failure the reply is the fallback's with agent_used                     *)
(* 'file-reader-fallback', and after a fallback failure too it is the      *)
(* fixed apology.                                                          *)
C19_RouterAlwaysAnswers ==
    \A c \in Calls :
        /\ routing[c].result.kind # "raised"
        /\ routing[c].pc = "done" =>
             LET answer == routing[c].result.value
             IN /\ routing[c].result.kind = "returned"
                /\ DOMAIN answer = {"reply", "sources", "session_id", "agent_used"}
                /\ answer.session_id = routing[c].session_id
                /\ routing[c].agent_failed = "none" => answer.agent_used = "rag-analyst"
                /\ routing[c].agent_failed # "none" =>
                     /\ answer.agent_used = "file-reader-fallback"
                     /\ answer.reply = IF routing[c].fallback_failed
                                       THEN APOLOGY ELSE "fallback reply"

C19_Witness ==
    \E c, d \in Calls :
        /\ routing[c].pc = "done"
        /\ routing[c].agent_failed = "_extract_reply"
        /\ routing[c].fallback_failed
        /\ routing[c].result.value.reply = APOLOGY
        /\ routing[d].pc = "done"
        /\ routing[d].agent_failed = "_create_client"
        /\ routing[d].result.value.reply = "fallback reply"

(* The storage clients a call opened and closed. *)
Opened(steps) == Len(SelectSeq(steps, LAMBDA step : step = "open_client"))

Closed(steps) == Len(SelectSeq(steps, LAMBDA step : step = "close_client"))

(* C20: every storage client a build or query invocation opens is closed   *)
(* before the invocation ends, on every exit path.                         *)
C20_ClientsClosed ==
    last.op # "none" => Closed(last.steps) = Opened(last.steps)

(***************************************************************************)
(* The loaders, the estimators and the choice of the embedding model on    *)
(* their own: functions of their input, applied to every input.            *)
(***************************************************************************)
DoLoadText ==
    /\ Idle
    /\ \E sample \in BOOLEAN, tree \in Trees : LoadText(sample, tree)
    /\ UNCHANGED <<sessions, routing, cli>>

DoEstimate ==
    /\ Idle
    /\ \E docs \in EstimateDocLists : Estimate(docs)
    /\ UNCHANGED <<sessions, routing, cli>>

DoResolveModels ==
    /\ Idle
    /\ \E env \in Envs : ResolveModels(env)
    /\ UNCHANGED <<sessions, routing, cli>>

ToolsNext ==
    \/ DoLoadText
    \/ DoEstimate
    \/ DoResolveModels
    \/ Return

SpecTools == Init /\ [][ToolsNext]_vars

(* The sources of a tree that have something to load. *)
UsableDocs(tree) ==
    Concat([i \in 1..Len(tree.csv) |->
              IF tree.csv[i].exists /\ Len(tree.csv[i].rows) >= 2
              THEN LoadCsvDocuments(tree.csv[i]) ELSE <<>>])
    \o (IF tree.contract THEN <<ContractDoc>> ELSE <<>>)
    \o (IF tree.config THEN <<ConfigDoc>> ELSE <<>>)

(* C21: a missing source file or a CSV file with a header and no data rows *)
(* is never fatal to an ingestion run, in the full loader and in the       *)
(* sample loader alike, for CSV, contract and config sources: the file is  *)
(* skipped and the documents of the remaining sources are returned.        *)
C21_IngestionIssueNotFatal ==
    last.op \in {"load_all_text_documents", "_load_sample_text_documents"} =>
        /\ last.result = "ok"
        /\ last.returned = UsableDocs(last.tree)

(* ceil(n / 4) *)
CeilQuarter(n) == CHOOSE t \in 0..n : 4 * t >= n /\ 4 * t < n + 4

RECURSIVE SumSeq(_)
SumSeq(s) == IF s = <<>> THEN 0 ELSE Head(s) + SumSeq(Tail(s))

SourceIds(docs) ==
    {docs[i].metadata.source_file :
        i \in {j \in 1..Len(docs) : "source_file" \in DOMAIN docs[j].metadata}}
    \ {EmptyStr}

(* C23: the estimator counts ceil(len / 4) tokens for a chunk, at least    *)
(* one for a non-empty text and none for an empty one; it reports their    *)
(* sum, the number of chunks, and as the number of documents the number of *)
(* distinct source ids, or the number of chunks when no chunk has one; the *)
(* command line's estimator and RAGIndexer.estimate give the same token    *)
(* total and the same cost for the same chunks.                            *)
C23_EstimatorTotals ==
    last.op = "estimate" =>
        /\ \A i \in 1..Len(last.docs) :
             /\ last.returned[i] = CeilQuarter(TextLen(last.docs[i]))
             /\ TextLen(last.docs[i]) > 0 => last.returned[i] >= 1
             /\ TextLen(last.docs[i]) = 0 => last.returned[i] = 0
        /\ last.estimate.estimated_tokens = SumSeq(last.returned)
        /\ last.estimate.chunk_count = Len(last.docs)
        /\ last.estimate.doc_count =
             (IF SourceIds(last.docs) = {} THEN Len(last.docs)
              ELSE Cardinality(SourceIds(last.docs)))
        /\ last.indexer_estimate.estimated_tokens = last.estimate.estimated_tokens
        /\ last.indexer_estimate.estimated_cost_usd = last.estimate.estimated_cost_usd
        /\ last.indexer_estimate.chunk_count = last.estimate.chunk_count

C23_Witness ==
    /\ last.op = "estimate"
    /\ Len(last.docs) = 2
    /\ TextLen(last.docs[1]) = 0
    /\ TextLen(last.docs[2]) = 5
    /\ last.docs[1].metadata = last.docs[2].metadata
    /\ SourceIds(last.docs) # {}
    /\ last.estimate.estimated_tokens = 2
    /\ last.estimate.doc_count = 1
    /\ last.estimate.chunk_count = 2

(***************************************************************************)
(* Runs of build_index.py --text, one after another, each step by step,    *)
(* with search_text calls and further runs started by other processes at   *)
(* any moment.                                                             *)
(***************************************************************************)
DoCliConstruct ==
    /\ \E docs \in BuildDocLists : CliConstruct(docs)
    /\ UNCHANGED <<sessions, routing>>

DoCliReset == CliReset /\ UNCHANGED <<sessions, routing>>

DoCliStore == CliStore /\ UNCHANGED <<sessions, routing>>

DoCliStoreFails == CliStoreFails /\ UNCHANGED <<sessions, routing>>

DoCliBm25 == CliBm25 /\ UNCHANGED <<sessions, routing>>

DoCliRefused == Idle /\ CliRefused /\ UNCHANGED <<sessions, routing>>

DoConcurrentSearchText ==
    /\ Idle
    /\ \E top_k \in BuildTopKs : ConcurrentSearchText(<<" ", "q">>, top_k, None)
    /\ UNCHANGED <<sessions, routing>>

BuildNext ==
    \/ DoCliConstruct
    \/ DoCliReset
    \/ DoCliStore
    \/ DoCliStoreFails
    \/ DoCliBm25
    \/ DoCliRefused
    \/ DoConcurrentSearchText
    \/ Return

SpecBuild == Init /\ [][BuildNext]_vars

(* A search_text call is made in this step. *)
SearchStarts == last.op = "none" /\ last'.op = "search_text"

(* A rebuild has dropped the collection and not yet stored the new chunks. *)
InRebuildWindow == cli.pc = "from_documents" /\ cli.latest # <<>>

C25_SemanticLastLexicalFirst ==
    (cli.pc = "none" /\ ~cli.failed /\ cli.latest # <<>>) =>
        /\ qdrant[TEXT_COLLECTION].exists
        /\ qdrant[TEXT_COLLECTION].points = cli.latest
        /\ bm25.files # {}
        /\ bm25.corpus = cli.first
        /\ (Range(qdrant[TEXT_COLLECTION].points) = Range(bm25.corpus)
              => Range(cli.first) = Range(cli.latest))

C25_Witness ==
    /\ cli.pc = "none"
    /\ ~cli.failed
    /\ cli.first = <<TextChunk(1)>>
    /\ cli.latest = <<TextChunk(2), TextChunk(3)>>
    /\ qdrant[TEXT_COLLECTION].points = <<TextChunk(2), TextChunk(3)>>
    /\ bm25.corpus = <<TextChunk(1)>>

(* from_documents fails in this step. *)
StoreFailed == cli.pc = "from_documents" /\ cli'.pc = "none"

C26_SameEmbeddingModel ==
    last.op = "embedding_model" =>
        /\ last.models.indexer = last.models.query
        /\ (last.env.EMBEDDING_MODEL.set /\ last.env.EMBEDDING_MODEL.value # "") =>
              last.models.indexer = last.env.EMBEDDING_MODEL.value

(* What search_text returns for the same retrieved lists with no category. *)
ReturnedWithoutCategory ==
    LET nodes == ReturnedNodes(last.top_k, None,
                               [vector |-> last.dense, bm25 |-> last.lex])
    IN [i \in 1..Len(nodes) |-> SerializeNode(nodes[i])]

(* C27: the pre-filter and the post-filter agree on what no category is:   *)
(* with category None, empty or made of whitespace only neither filters,   *)
(* and search_text returns what it returns with category None.             *)
C27_BlankCategoryIsNoCategory ==
    (/\ SearchReturned
     /\ (last.category.isNone \/ \A i \in 1..Len(last.category.str) :
                                    last.category.str[i] = " ")) =>
        last.returned = ReturnedWithoutCategory

(* Call c stores the client it has created in this step. *)
StoresNewClient(c) == routing[c].pc = "_create_client" /\ routing'[c].pc = "query"

(* C29: for every session id, at most one agent client is created while    *)
(* the id has an entry in the session store, concurrent calls with the     *)
(* same unseen id included: a call that stores a client it created finds   *)
(* no entry under its id, so that no client is created and then dropped    *)
(* from the store for another one.                                         *)
C29_OneClientPerSession ==
    [][\A c \in Calls :
          StoresNewClient(c) => sessions[routing[c].session_id] = NoClient]_vars

(***************************************************************************)
(* The agent router serving one call at a time: a call starts when the     *)
(* call before it has returned.                                            *)
(***************************************************************************)
NoCallInFlight == \A d \in Calls : routing[d].pc \in {"none", "done"}

DoStartCallInTurn == NoCallInFlight /\ DoStartCall

RouterSeqNext ==
    \/ DoStartCallInTurn
    \/ DoClientCreated
    \/ DoQueryDone
    \/ DoReplyExtracted
    \/ DoAgentFailed
    \/ DoFallbackDone
    \/ DoFallbackFailed

SpecRouterSeq == Init /\ [][RouterSeqNext]_vars

(* The clients of the calls whose agent path has failed. *)
BrokenClients ==
    {routing[e].client : e \in {d \in Calls : routing[d].agent_failed # "none"}}
    \ {NoClient}

(* C30: session continuity over any sequence of calls.  The session id a   *)
(* call answers with is the one it was given, or a fresh one when it was   *)
(* given none; a call whose id has an entry in the store reuses that       *)
(* client and a call whose id has none creates a new one; after a          *)
(* successful call the store maps the id to the client that answered;      *)
(* after a failed call the store has no entry for the id, so the next call *)
(* with it creates a new client; a client whose call failed is never in    *)
(* the store and never used again.                                         *)
C30_SessionContinuity ==
    [][/\ \A c \in Calls :
            LET before == routing[c]
                after == routing'[c]
                sid == after.session_id
            IN /\ (before.pc = "none" /\ after.pc # "none") =>
                    /\ sid = IF after.session_arg.isNone THEN Uuid4(c)
                             ELSE after.session_arg.id
                    /\ after.session_arg.isNone =>
                          /\ sessions[sid] = NoClient
                          /\ \A d \in Calls \ {c} : routing[d].session_id # sid
                    /\ sessions[sid] # NoClient =>
                          after.pc = "query" /\ after.client = sessions[sid]
                    /\ sessions[sid] = NoClient => after.pc = "_create_client"
               /\ (before.pc = "_create_client" /\ after.pc = "query") =>
                    /\ after.client # NoClient
                    /\ \A d \in Calls \ {c} : routing[d].client # after.client
                    /\ sessions'[sid] = after.client
               /\ (before.pc # "done" /\ after.pc = "done") =>
                    /\ after.result.value.session_id = sid
                    /\ after.agent_failed = "none" =>
                          sessions'[sid] = after.client /\ after.client # NoClient
                    /\ after.agent_failed # "none" => sessions'[sid] = NoClient
               /\ (before.agent_failed = "none" /\ after.agent_failed # "none") =>
                    sessions'[sid] = NoClient
               /\ after.pc \in {"query", "_extract_reply"} =>
                    after.client \notin BrokenClients'
       /\ \A s \in SessionIds : sessions'[s] \notin BrokenClients']_vars

(* A first call given no session id was answered by a client it created,   *)
(* and the next call, given the id of that answer, was answered by the     *)
(* same client.                                                            *)
C30_Witness ==
    \E c, d \in Calls :
        /\ c # d
        /\ routing[c].pc = "done"
        /\ routing[c].session_arg = NoSession
        /\ routing[c].agent_failed = "none"
        /\ routing[d].pc = "done"
        /\ routing[d].session_arg = Session(Uuid4(c))
        /\ routing[d].agent_failed = "none"
        /\ routing[d].client = routing[c].client
        /\ sessions[Uuid4(c)] = routing[c].client

====
